---- MODULE Spec2Model ----
(***************************************************************************)
(* A model of fastcgi++'s MySQL adapter (src/src/mysql.cpp): the binding   *)
(* builder and applier, the typed conversions, Statement::execute under    *)
(* its mutex, and Connection::connect / getFoundRows.                      *)
(***************************************************************************)
EXTENDS Integers, Sequences, FiniteSets, TLC

(***************************************************************************)
(* Bounds of the model.                                                    *)
(***************************************************************************)
MaxBuildCols == 2
MaxSqlSize == 2
MaxHours == 2
NumConnections == 2
NumThreads == 2
MaxCalls == 2
MaxRows == 2
MaxThreadCalls == 2
MaxThreadRows == 1

(***************************************************************************)
(* Data::Type.  The enumeration lives in the header; the source fixes its  *)
(* arithmetic: U_TINY..U_BIGINT are the lowest values, adding TINY to an   *)
(* unsigned kind gives the signed one, and every nullable kind is its base *)
(* kind plus U_TINY_N.                                                     *)
(***************************************************************************)
U_TINY == 0
U_SHORT == 1
U_INT == 2
U_BIGINT == 3
TINY == 4
SHORT == 5
INT == 6
BIGINT == 7
FLOAT == 8
DOUBLE == 9
DATE == 10
DATETIME == 11
TIME == 12
BLOB == 13
TEXT == 14
WTEXT == 15
CHAR == 16
BINARY == 17
U_TINY_N == 18

Nullable(k) == k + U_TINY_N

AllTypes == U_TINY..Nullable(BINARY)

(***************************************************************************)
(* Addresses.  A pointer names what it points at: the member `part` of     *)
(* column `col`, either of a conversion object of the statement (owner 0)  *)
(* or of record `rec` of caller `owner` (rec 0: the parameter record;      *)
(* rec k > 0: the k-th record of the caller's result container).           *)
(***************************************************************************)
Ptr(owner, rec, col, part) == [owner |-> owner, rec |-> rec, col |-> col, part |-> part]

NullPtr == Ptr(0, 0, 0, "null")

Internal(i) == Ptr(0, 0, i, "internal")

LengthOf(i) == Ptr(0, 0, i, "length")

(***************************************************************************)
(* A MYSQL_BIND after std::memset(.., 0, ..): every pointer null, every    *)
(* number zero; buffer_type 0 is MYSQL_TYPE_DECIMAL in the driver's enum.  *)
(***************************************************************************)
ZeroBind ==
  [ buffer_type |-> "MYSQL_TYPE_DECIMAL", is_unsigned |-> 0, buffer |-> NullPtr,
    buffer_length |-> 0, length |-> NullPtr, is_null |-> NullPtr ]

(***************************************************************************)
(* The head of buildBindings' loop body: "Handle NULL" strips the nullable *)
(* offset, then "Handle unsigned" sets the flag and moves an unsigned kind *)
(* onto its signed counterpart.  The result is what the switch sees.       *)
(***************************************************************************)
NormalizeTypeUnsignedFirst(type0) ==
  LET uns == type0 <= U_BIGINT
      t1  == IF uns THEN type0 + TINY ELSE type0
      t2  == IF t1 >= U_TINY_N THEN t1 - U_TINY_N ELSE t1
  IN  [type |-> t2, is_unsigned |-> IF uns THEN 1 ELSE 0]

NormalizeType(type0) ==
  LET t1  == IF type0 >= U_TINY_N THEN type0 - U_TINY_N ELSE type0
      uns == t1 <= U_BIGINT
      t2  == IF uns THEN t1 + TINY ELSE t1
  IN  [type |-> t2, is_unsigned |-> IF uns THEN 1 ELSE 0]

(***************************************************************************)
(* One iteration of the loop of buildBindings for column i of declared     *)
(* type `type0` and declared size `size`: the descriptor, and the kind of  *)
(* conversion object created ("none" when conversions[i] is not set).      *)
(***************************************************************************)
BuildBinding(type0, i, size) ==
  LET n   == NormalizeType(type0)
      t2  == n.type
      b0  == [ZeroBind EXCEPT !.is_unsigned = n.is_unsigned]
  IN  CASE t2 = TINY     -> [bind |-> [b0 EXCEPT !.buffer_type = "MYSQL_TYPE_TINY"], conv |-> "none"]
        [] t2 = SHORT    -> [bind |-> [b0 EXCEPT !.buffer_type = "MYSQL_TYPE_SHORT"], conv |-> "none"]
        [] t2 = INT      -> [bind |-> [b0 EXCEPT !.buffer_type = "MYSQL_TYPE_LONG"], conv |-> "none"]
        [] t2 = BIGINT   -> [bind |-> [b0 EXCEPT !.buffer_type = "MYSQL_TYPE_LONGLONG"], conv |-> "none"]
        [] t2 = FLOAT    -> [bind |-> [b0 EXCEPT !.buffer_type = "MYSQL_TYPE_FLOAT"], conv |-> "none"]
        [] t2 = DOUBLE   -> [bind |-> [b0 EXCEPT !.buffer_type = "MYSQL_TYPE_DOUBLE"], conv |-> "none"]
        [] t2 = DATE     -> [bind |-> [b0 EXCEPT !.buffer_type = "MYSQL_TYPE_DATE",
                                                 !.buffer = Internal(i)],
                             conv |-> "Date"]
        [] t2 = DATETIME -> [bind |-> [b0 EXCEPT !.buffer_type = "MYSQL_TYPE_DATETIME",
                                                 !.buffer = Internal(i)],
                             conv |-> "Datetime"]
        [] t2 = TIME     -> [bind |-> [b0 EXCEPT !.buffer_type = "MYSQL_TYPE_TIME",
                                                 !.buffer = Internal(i)],
                             conv |-> "Time"]
        [] t2 = BLOB     -> [bind |-> [b0 EXCEPT !.buffer_type = "MYSQL_TYPE_BLOB",
                                                 !.length = LengthOf(i)],
                             conv |-> "Blob"]
        [] t2 = TEXT     -> [bind |-> [b0 EXCEPT !.buffer_type = "MYSQL_TYPE_STRING",
                                                 !.length = LengthOf(i)],
                             conv |-> "Text"]
        [] t2 = WTEXT    -> [bind |-> [b0 EXCEPT !.buffer_type = "MYSQL_TYPE_STRING",
                                                 !.length = LengthOf(i)],
                             conv |-> "Wtext"]
        [] t2 = CHAR     -> [bind |-> [b0 EXCEPT !.buffer_type = "MYSQL_TYPE_STRING",
                                                 !.buffer_length = size],
                             conv |-> "none"]
        [] t2 = BINARY   -> [bind |-> [b0 EXCEPT !.buffer_type = "MYSQL_TYPE_BLOB",
                                                 !.buffer_length = size],
                             conv |-> "none"]
        [] OTHER         -> [bind |-> b0, conv |-> "none"]

(***************************************************************************)
(* buildBindings over a whole row description `set` (a sequence of         *)
(* [type, size]): the descriptor array and the conversions map, which has  *)
(* an entry exactly for the columns a conversion object was created for.   *)
(***************************************************************************)
BuildBindings(set) ==
  LET built == [i \in 1..Len(set) |-> BuildBinding(set[i].type, i, set[i].size)]
      keys  == {i \in 1..Len(set) : built[i].conv # "none"}
  IN  [ bindings    |-> [i \in 1..Len(set) |-> built[i].bind],
        conversions |-> [i \in keys |-> built[i].conv] ]

(***************************************************************************)
(* boost::posix_time::time_duration, to the second: a signed count of      *)
(* seconds.  hours(), minutes() and seconds() are C++ integer quotients    *)
(* and remainders of that count, so all three carry the duration's sign.   *)
(***************************************************************************)
Abs(x) == IF x < 0 THEN -x ELSE x

TruncDiv(a, b) == IF a >= 0 THEN a \div b ELSE -((-a) \div b)

TruncRem(a, b) == a - b * TruncDiv(a, b)

Hours(d) == TruncDiv(d, 3600)

Minutes(d) == TruncRem(TruncDiv(d, 60), 60)

Seconds(d) == TruncRem(d, 60)

\* time_duration(h, m, s): when any component is negative the magnitudes are
\* added up and the whole duration is negated.
TimeDuration(h, m, s) ==
  IF h < 0 \/ m < 0 \/ s < 0
    THEN -(Abs(h) * 3600 + Abs(m) * 60 + Abs(s))
    ELSE h * 3600 + m * 60 + s

\* MYSQL_TIME after std::memset(&internal, 0, sizeof(MYSQL_TIME)).
ZeroTime ==
  [year |-> 0, month |-> 0, day |-> 0, hour |-> 0, minute |-> 0, second |-> 0, neg |-> 0]

\* internal.hour*-1: internal.hour is an unsigned int, so the product is
\* 2^32 - hour (mod 2^32); handed to time_duration's 32-bit hour_type it is
\* read back as -hour.
NegatedHour(hour) == -hour

(***************************************************************************)
(* TypedConversion<Time>::convertParam: the scratch written from the       *)
(* caller's duration `external`.                                           *)
(***************************************************************************)
ConvertParamTime(external) ==
  [ZeroTime EXCEPT !.hour   = Abs(Hours(external)),
                   !.minute = Abs(Minutes(external)),
                   !.second = Abs(Seconds(external)),
                   !.neg    = IF Hours(external) < 0 THEN 1 ELSE 0]

(***************************************************************************)
(* TypedConversion<Time>::convertResult: the duration written to the       *)
(* caller from the scratch `internal`.                                     *)
(***************************************************************************)
ConvertResultTime(internal) ==
  TimeDuration(IF internal.neg # 0 THEN NegatedHour(internal.hour) ELSE internal.hour,
               internal.minute, internal.second)

(***************************************************************************)
(* Connection::getFoundRows(rows), failing at the driver call `failAt`     *)
(* ("none": every call succeeds).  `aux` is the auxiliary statement's      *)
(* state and `binding` is foundRowsBinding.  The fetch writes the count     *)
(* through the binding's buffer, which line 61 points at `rows`.           *)
(***************************************************************************)
GetFoundRowsFailures == {"none", "bind_param", "execute", "bind_result", "fetch"}

GetFoundRows(aux, binding, rows, failAt) ==
  [ raised  |-> failAt # "none",
    aux     |-> CASE failAt \in {"bind_param", "execute"} -> aux
                  [] failAt \in {"bind_result", "fetch"}  -> "executed"
                  [] OTHER                                -> "prepared",
    binding |-> IF failAt \in {"bind_param", "execute"}
                  THEN binding
                  ELSE [binding EXCEPT !.buffer = rows],
    written |-> IF failAt = "none" THEN {rows} ELSE {} ]

(***************************************************************************)
(* State.                                                                  *)
(***************************************************************************)
VARIABLES
  \* buildBindings applied to a row description
  bSet, bBindings, bConversions, bDone,
  \* a TIME value sent through convertParam and read back by convertResult
  tOriginal, tExternal, tInternal, tPc,
  \* Connection objects: the MYSQL handle, foundRowsStatement, foundRowsBinding,
  \* where connect() stands, and the caller's slot getFoundRows writes
  connection, foundRowsStatement, foundRowsBinding, cPc, cRows,
  \* one Statement: executeMutex, the driver's statement state, the descriptor
  \* arrays and the conversion maps
  executeMutex, stmtState, paramsBindings, resultsBindings,
  paramsConversions, resultsConversions,
  \* the callers of execute: position, arguments, calls made, the result
  \* container, the two out-values, the conversions iterator, the steps of the
  \* call in flight
  pc, args, calls, container, rowsOut, insertIdOut, cursor, log

buildVars == <<bSet, bBindings, bConversions, bDone>>

timeVars == <<tOriginal, tExternal, tInternal, tPc>>

connVars == <<connection, foundRowsStatement, foundRowsBinding, cPc, cRows>>

stmtVars ==
  <<executeMutex, stmtState, paramsBindings, resultsBindings,
    paramsConversions, resultsConversions>>

callVars == <<pc, args, calls, container, rowsOut, insertIdOut, cursor, log>>

vars == <<buildVars, timeVars, connVars, stmtVars, callVars>>

Connections == 1..NumConnections

Threads == 1..NumThreads

NoThread == 0

(***************************************************************************)
(* Row descriptions handed to buildBindings: every declared type, with a   *)
(* declared size for CHAR and BINARY (getSqlSize is read for those only).  *)
(***************************************************************************)
SizedTypes == {CHAR, BINARY, Nullable(CHAR), Nullable(BINARY)}

SqlElements ==
  [type : AllTypes \ SizedTypes, size : {0}] \cup [type : SizedTypes, size : 1..MaxSqlSize]

RowDescriptions == UNION {[1..n -> SqlElements] : n \in 0..MaxBuildCols}

Durations == (-(MaxHours * 3600 + 3599))..(MaxHours * 3600 + 3599)

(***************************************************************************)
(* The parts of the state a specification does not use stay as they are    *)
(* here.                                                                   *)
(***************************************************************************)
BuildIdle ==
  /\ bSet = <<>>
  /\ bBindings = <<>>
  /\ bConversions = <<>>
  /\ bDone = FALSE

TimeIdle ==
  /\ tOriginal = 0
  /\ tExternal = 0
  /\ tInternal = ZeroTime
  /\ tPc = "param"

\* A Connection before connect(): nothing in the source initialises the
\* members, so the handle and the statement pointer hold no resource yet.
ConnFresh ==
  /\ connection = [c \in Connections |-> "fresh"]
  /\ foundRowsStatement = [c \in Connections |-> "unset"]
  /\ foundRowsBinding = [c \in Connections |-> ZeroBind]
  /\ cPc = [c \in Connections |-> "constructed"]
  /\ cRows = [c \in Connections |-> "unwritten"]

(***************************************************************************)
(* buildBindings as the one step of its specification.                     *)
(***************************************************************************)
InitBuild ==
  /\ bSet \in RowDescriptions
  /\ bBindings = <<>>
  /\ bConversions = <<>>
  /\ bDone = FALSE
  /\ TimeIdle

BuildBindingsCall ==
  /\ ~bDone
  /\ bBindings' = BuildBindings(bSet).bindings
  /\ bConversions' = BuildBindings(bSet).conversions
  /\ bDone' = TRUE
  /\ UNCHANGED <<bSet, timeVars, connVars, stmtVars, callVars>>

(***************************************************************************)
(* The TIME conversions as steps: convertParam fills the scratch from the  *)
(* caller's duration, convertResult writes the caller's duration from the  *)
(* scratch the driver left unchanged.                                      *)
(***************************************************************************)
InitTime ==
  /\ tOriginal \in Durations
  /\ tExternal = tOriginal
  /\ tInternal = ZeroTime
  /\ tPc = "param"
  /\ BuildIdle

ConvertParamTimeCall ==
  /\ tPc = "param"
  /\ tInternal' = ConvertParamTime(tExternal)
  /\ tPc' = "result"
  /\ UNCHANGED <<tOriginal, tExternal, buildVars, connVars, stmtVars, callVars>>

ConvertResultTimeCall ==
  /\ tPc = "result"
  /\ tExternal' = ConvertResultTime(tInternal)
  /\ tPc' = "done"
  /\ UNCHANGED <<tOriginal, tInternal, buildVars, connVars, stmtVars, callVars>>

(***************************************************************************)
(* Connection::connect, failing at the driver call `failAt` ("none": every *)
(* call succeeds): what each member holds when connect returns or throws.  *)
(* No statement of connect releases anything before a throw.               *)
(***************************************************************************)
ConnectFailures ==
  {"none", "init", "real_connect", "set_character_set", "stmt_init", "stmt_prepare"}

ConnectHandle(failAt) ==
  CASE failAt = "init"         -> "fresh"
    [] failAt = "real_connect" -> "initialised"
    [] OTHER                   -> "open"

ConnectStatement(old, failAt) ==
  CASE failAt \in {"init", "real_connect", "set_character_set"} -> old
    [] failAt = "stmt_init"                                      -> "null"
    [] failAt = "stmt_prepare"                                   -> "initialised"
    [] OTHER                                                     -> "prepared"

ConnectBinding(old, failAt) ==
  IF failAt = "none"
    THEN [ZeroBind EXCEPT !.buffer_type = "MYSQL_TYPE_LONGLONG", !.is_unsigned = 1]
    ELSE old

Connect(c) ==
  /\ cPc[c] = "constructed"
  /\ \E failAt \in ConnectFailures :
       /\ connection' = [connection EXCEPT ![c] = ConnectHandle(failAt)]
       /\ foundRowsStatement' =
            [foundRowsStatement EXCEPT ![c] = ConnectStatement(@, failAt)]
       /\ foundRowsBinding' = [foundRowsBinding EXCEPT ![c] = ConnectBinding(@, failAt)]
       /\ cPc' = [cPc EXCEPT ![c] = IF failAt = "none" THEN "connected" ELSE "raised"]
  /\ UNCHANGED <<cRows, buildVars, timeVars, stmtVars, callVars>>

(***************************************************************************)
(* Connection::getFoundRows called on a connected Connection.              *)
(***************************************************************************)
GetFoundRowsCall(c) ==
  /\ cPc[c] = "connected"
  /\ \E failAt \in GetFoundRowsFailures :
       LET r == GetFoundRows(foundRowsStatement[c], foundRowsBinding[c],
                             Ptr(0, 0, c, "rows"), failAt)
       IN  /\ foundRowsStatement' = [foundRowsStatement EXCEPT ![c] = r.aux]
           /\ foundRowsBinding' = [foundRowsBinding EXCEPT ![c] = r.binding]
           /\ cRows' = [cRows EXCEPT ![c] = IF r.written = {} THEN @ ELSE "found_rows"]
  /\ UNCHANGED <<connection, cPc, buildVars, timeVars, stmtVars, callVars>>

(***************************************************************************)
(* Connection::~Connection: mysql_stmt_close on whatever foundRowsStatement*)
(* holds, then mysql_close.  Closing a pointer that was never set, or a    *)
(* null one, is undefined: the destructor may come through or crash.      *)
(***************************************************************************)
Destroy(c) ==
  /\ cPc[c] \in {"constructed", "connected", "raised"}
  /\ \E crash \in BOOLEAN :
       /\ crash => (foundRowsStatement[c] \in {"unset", "null"} \/ connection[c] = "fresh")
       /\ cPc' = [cPc EXCEPT ![c] = IF crash THEN "crashed" ELSE "destroyed"]
       /\ foundRowsStatement' =
            [foundRowsStatement EXCEPT ![c] = IF crash THEN @ ELSE "closed"]
       /\ connection' = [connection EXCEPT ![c] = IF crash THEN @ ELSE "closed"]
  /\ UNCHANGED <<foundRowsBinding, cRows, buildVars, timeVars, stmtVars, callVars>>

(***************************************************************************)
(* The Statement of the execute specifications: its parameter and result   *)
(* row descriptions, as handed to init().                                  *)
(***************************************************************************)
ParamSet ==
  << [type |-> DATE, size |-> 0], [type |-> INT, size |-> 0],
     [type |-> Nullable(WTEXT), size |-> 0] >>

ResultSet ==
  << [type |-> TIME, size |-> 0], [type |-> Nullable(INT), size |-> 0],
     [type |-> TEXT, size |-> 0] >>

NullableCols(set) == {i \in 1..Len(set) : set[i].type >= U_TINY_N}

\* Statement::init: the descriptors of buildBindings, and a conversion object
\* per entry of its map, `external` not pointed anywhere yet.
InitBindings(set) == BuildBindings(set).bindings

InitConversions(set) ==
  [i \in DOMAIN BuildBindings(set).conversions |->
     [kind |-> BuildBindings(set).conversions[i], external |-> NullPtr]]

(***************************************************************************)
(* Data::Conversions is a map keyed by column index, walked from begin()   *)
(* to end() in ascending key order; 0 stands for end().                    *)
(***************************************************************************)
ConversionsNext(conversions, i) ==
  LET later == {k \in DOMAIN conversions : k > i}
  IN  IF later = {} THEN 0 ELSE CHOOSE k \in later : \A j \in later : k <= j

ConversionsBegin(conversions) == ConversionsNext(conversions, 0)

(***************************************************************************)
(* bindBindings for record `rec` of caller `owner`, whose row description  *)
(* is `set`: every descriptor re-pointed, a nullable column's is_null      *)
(* wired to the record's nullness and its data taken from getVoid(), a     *)
(* conversion's `external` set to the data and the descriptor pointed at   *)
(* the conversion's own buffer.                                            *)
(***************************************************************************)
BindBindings(set, owner, rec, conversions, bindings) ==
  [ bindings |->
      [i \in DOMAIN bindings |->
         [bindings[i] EXCEPT
            !.is_null = IF set[i].type >= U_TINY_N THEN Ptr(owner, rec, i, "nullness") ELSE @,
            !.buffer  = IF i \in DOMAIN conversions
                          THEN Internal(i)
                          ELSE Ptr(owner, rec, i, "value")]],
    conversions |->
      [i \in DOMAIN conversions |->
         [conversions[i] EXCEPT !.external = Ptr(owner, rec, i, "value")]] ]

(***************************************************************************)
(* Which conversions can throw.  convertParam: only Wtext, when the wide   *)
(* string does not transcode.  convertResult: Date and Datetime (the       *)
(* calendar types reject an invalid date), Blob and Text (the second-pass  *)
(* fetch fails), Wtext (either).  Time never throws.                       *)
(***************************************************************************)
ThrowingParamKinds == {"Wtext"}

ThrowingResultKinds == {"Date", "Datetime", "Blob", "Text", "Wtext"}

WtextCols(set) == {i \in 1..Len(set) : NormalizeType(set[i].type).type = WTEXT}

(***************************************************************************)
(* The arguments of one execute call.                                      *)
(***************************************************************************)
ParamRecords ==
  [supplied : {TRUE}, nullness : SUBSET NullableCols(ParamSet),
   invalid : SUBSET WtextCols(ParamSet)]
    \cup {[supplied |-> FALSE, nullness |-> {}, invalid |-> {}]}

ExecuteArgs ==
  {a \in [parameters : ParamRecords, results : BOOLEAN, initial : 0..1,
          insertId : BOOLEAN, rows : BOOLEAN] : ~a.results => a.initial = 0}

\* The calls of the callers that share the statement: a query that fills a
\* container and asks for the found rows, or an update that asks for the
\* insert id.
ConcurrentArgs ==
  {a \in ExecuteArgs : /\ a.parameters.supplied
                       /\ a.parameters.nullness = {}
                       /\ a.parameters.invalid = {}
                       /\ a.initial = 0
                       /\ a.rows = a.results
                       /\ a.insertId = ~a.results}

NoArgs ==
  [parameters |-> [supplied |-> FALSE, nullness |-> {}, invalid |-> {}],
   results |-> FALSE, initial |-> 0, insertId |-> FALSE, rows |-> FALSE]

\* Records of a result container: one the caller had before the call, one
\* manufacture() has just appended, and what a fetch and the conversions
\* make of it.
OldRecord == [row |-> -1, converted |-> {}]

FreshRecord == [row |-> 0, converted |-> {}]

Ev(op, col) == [op |-> op, col |-> col]

Count(L, op) == Cardinality({p \in DOMAIN L : L[p].op = op})

(***************************************************************************)
(* The statement's mutex.  boost::lock_guard locks in its constructor      *)
(* (line 87) and unlocks in its destructor, which runs however execute is  *)
(* left: at the closing brace or while a throw unwinds.                    *)
(***************************************************************************)
CanLockAlways(t) == TRUE

CanLock(t) == executeMutex = NoThread

ExitMutexOnReturnOnly(t, how) == IF how = "return" THEN NoThread ELSE executeMutex

ExitMutex(t, how) == NoThread

Advance(t, to, events) ==
  /\ pc' = [pc EXCEPT ![t] = to]
  /\ log' = [log EXCEPT ![t] = @ \o events]
  /\ executeMutex' = executeMutex

Throw(t, events) ==
  /\ pc' = [pc EXCEPT ![t] = "raised"]
  /\ log' = [log EXCEPT ![t] = @ \o events \o <<Ev("throw", 0)>>]
  /\ executeMutex' = ExitMutex(t, "throw")

(***************************************************************************)
(* A caller enters execute with arguments from `menu` and waits for the    *)
(* statement's mutex (line 87); `more` says whether the callers have calls *)
(* left to make.                                                           *)
(***************************************************************************)
Call(t, menu, more) ==
  /\ pc[t] \in {"idle", "returned", "raised"}
  /\ more
  /\ \E a \in menu :
       /\ args' = [args EXCEPT ![t] = a]
       /\ container' = [container EXCEPT ![t] = [k \in 1..a.initial |-> OldRecord]]
  /\ calls' = [calls EXCEPT ![t] = @ + 1]
  /\ rowsOut' = [rowsOut EXCEPT ![t] = "unwritten"]
  /\ insertIdOut' = [insertIdOut EXCEPT ![t] = "unwritten"]
  /\ cursor' = [cursor EXCEPT ![t] = 0]
  /\ log' = [log EXCEPT ![t] = <<>>]
  /\ pc' = [pc EXCEPT ![t] = "lock"]
  /\ UNCHANGED <<buildVars, timeVars, connVars, stmtVars>>

\* line 87
Lock(t) ==
  /\ pc[t] = "lock"
  /\ CanLock(t)
  /\ executeMutex' = t
  /\ pc' = [pc EXCEPT ![t] = "parameters"]
  /\ UNCHANGED <<buildVars, timeVars, connVars, stmtState, paramsBindings, resultsBindings,
                 paramsConversions, resultsConversions,
                 args, calls, container, rowsOut, insertIdOut, cursor, log>>

\* lines 89-92: if(parameters), bindBindings, and the iterator set to begin()
ApplyParameters(t) ==
  /\ pc[t] = "parameters"
  /\ IF args[t].parameters.supplied
       THEN LET b == BindBindings(ParamSet, t, 0, paramsConversions, paramsBindings)
                first == ConversionsBegin(paramsConversions)
            IN  /\ paramsBindings' = b.bindings
                /\ paramsConversions' = b.conversions
                /\ cursor' = [cursor EXCEPT ![t] = first]
                /\ Advance(t, IF first = 0 THEN "bind_param" ELSE "convertParam",
                           <<Ev("bindBindings", 0)>>)
       ELSE /\ Advance(t, "bind_param", <<>>)
            /\ UNCHANGED <<paramsBindings, paramsConversions, cursor>>
  /\ UNCHANGED <<buildVars, timeVars, connVars, stmtState, resultsBindings,
                 resultsConversions, args, calls, container, rowsOut, insertIdOut>>

\* lines 92-93: it->second->convertParam() for the conversion under the
\* iterator, which reads the value `external` points at, and ++it
ConvertParam(t) ==
  /\ pc[t] = "convertParam"
  /\ LET i    == cursor[t]
         conv == paramsConversions[i]
         next == ConversionsNext(paramsConversions, i)
         bad  == /\ conv.kind \in ThrowingParamKinds
                 /\ conv.external.owner \in Threads
                 /\ i \in args[conv.external.owner].parameters.invalid
     IN  IF bad
           THEN /\ Throw(t, <<Ev("convertParam", i)>>)
                /\ UNCHANGED cursor
           ELSE /\ Advance(t, IF next = 0 THEN "bind_param" ELSE "convertParam",
                           <<Ev("convertParam", i)>>)
                /\ cursor' = [cursor EXCEPT ![t] = next]
  /\ UNCHANGED <<buildVars, timeVars, connVars, stmtState, paramsBindings, resultsBindings,
                 paramsConversions, resultsConversions,
                 args, calls, container, rowsOut, insertIdOut>>

\* line 96
DriverBindParam(t) ==
  /\ pc[t] = "bind_param"
  /\ \E ok \in BOOLEAN :
       IF ok THEN Advance(t, "execute", <<Ev("bind_param", 0)>>)
             ELSE Throw(t, <<Ev("bind_param", 0)>>)
  /\ UNCHANGED <<buildVars, timeVars, connVars, stmtState, paramsBindings, resultsBindings,
                 paramsConversions, resultsConversions,
                 args, calls, container, rowsOut, insertIdOut, cursor>>

\* line 97, and the branch of line 99
DriverExecute(t) ==
  /\ pc[t] = "execute"
  /\ \E ok \in BOOLEAN :
       IF ok THEN /\ Advance(t, IF args[t].results THEN "manufacture" ELSE "outvalues",
                             <<Ev("execute", 0)>>)
                  /\ stmtState' = "executed"
             ELSE /\ Throw(t, <<Ev("execute", 0)>>)
                  /\ UNCHANGED stmtState
  /\ UNCHANGED <<buildVars, timeVars, connVars, paramsBindings, resultsBindings,
                 paramsConversions, resultsConversions,
                 args, calls, container, rowsOut, insertIdOut, cursor>>

\* line 107
Manufacture(t) ==
  /\ pc[t] = "manufacture"
  /\ container' = [container EXCEPT ![t] = Append(@, FreshRecord)]
  /\ Advance(t, "bindResults", <<Ev("manufacture", 0)>>)
  /\ UNCHANGED <<buildVars, timeVars, connVars, stmtState, paramsBindings, resultsBindings,
                 paramsConversions, resultsConversions,
                 args, calls, rowsOut, insertIdOut, cursor>>

ApplyResultsFirstRecordOnly(t) ==
  /\ pc[t] = "bindResults"
  /\ IF Count(log[t], "manufacture") = 1
       THEN LET b == BindBindings(ResultSet, t, Len(container[t]), resultsConversions,
                                  resultsBindings)
            IN  /\ resultsBindings' = b.bindings
                /\ resultsConversions' = b.conversions
                /\ Advance(t, "bind_result", <<Ev("bindBindings", 1)>>)
       ELSE /\ Advance(t, "bind_result", <<>>)
            /\ UNCHANGED <<resultsBindings, resultsConversions>>
  /\ UNCHANGED <<buildVars, timeVars, connVars, stmtState, paramsBindings,
                 paramsConversions, args, calls, container, rowsOut, insertIdOut, cursor>>

\* line 108: bindBindings on the record manufacture() returned
ApplyResults(t) ==
  /\ pc[t] = "bindResults"
  /\ LET b == BindBindings(ResultSet, t, Len(container[t]), resultsConversions,
                           resultsBindings)
     IN  /\ resultsBindings' = b.bindings
         /\ resultsConversions' = b.conversions
  /\ Advance(t, "bind_result", <<Ev("bindBindings", 1)>>)
  /\ UNCHANGED <<buildVars, timeVars, connVars, stmtState, paramsBindings,
                 paramsConversions, args, calls, container, rowsOut, insertIdOut, cursor>>

\* line 109
DriverBindResult(t) ==
  /\ pc[t] = "bind_result"
  /\ \E ok \in BOOLEAN :
       IF ok THEN Advance(t, "fetch", <<Ev("bind_result", 0)>>)
             ELSE Throw(t, <<Ev("bind_result", 0)>>)
  /\ UNCHANGED <<buildVars, timeVars, connVars, stmtState, paramsBindings, resultsBindings,
                 paramsConversions, resultsConversions,
                 args, calls, container, rowsOut, insertIdOut, cursor>>

\* What mysql_stmt_fetch stores for row k: every column bound straight onto
\* a record's value lands in that record.
WriteRow(cont, bindings, k) ==
  [o \in DOMAIN cont |->
     [r \in DOMAIN cont[o] |->
        IF \E i \in DOMAIN bindings : bindings[i].buffer = Ptr(o, r, i, "value")
          THEN [cont[o][r] EXCEPT !.row = k]
          ELSE cont[o][r]]]

\* What convertResult of column i stores: the value `external` points at.
WriteConverted(cont, external, i) ==
  [o \in DOMAIN cont |->
     [r \in DOMAIN cont[o] |->
        IF external = Ptr(o, r, i, "value")
          THEN [cont[o][r] EXCEPT !.converted = @ \cup {i}]
          ELSE cont[o][r]]]

TrimNothing(records) == records

\* res.trim(): the trailing record is discarded.
Trim(records) == SubSeq(records, 1, Len(records) - 1)

\* lines 110-121: mysql_stmt_fetch and the switch on its result; after
\* MYSQL_NO_DATA the loop ends and line 124 tests `rows`.  The driver
\* delivers at most maxRows rows.
Fetch(t, maxRows) ==
  /\ pc[t] = "fetch"
  /\ \E outcome \in {"error", "no_data", "row"} :
       CASE outcome = "error" ->
              /\ Throw(t, <<Ev("fetch_error", 0)>>)
              /\ UNCHANGED <<container, cursor>>
         [] outcome = "no_data" ->
              /\ container' = [container EXCEPT ![t] = Trim(@)]
              /\ Advance(t, IF args[t].rows THEN "getFoundRows" ELSE "reset",
                         <<Ev("fetch_no_data", 0), Ev("trim", 0)>>)
              /\ UNCHANGED cursor
         [] outcome = "row" ->
              LET first == ConversionsBegin(resultsConversions)
              IN  /\ Count(log[t], "fetch_row") < maxRows
                  /\ container' = WriteRow(container, resultsBindings,
                                           Count(log[t], "fetch_row") + 1)
                  /\ cursor' = [cursor EXCEPT ![t] = first]
                  /\ Advance(t, IF first = 0 THEN "manufacture" ELSE "convertResult",
                             <<Ev("fetch_row", 0)>>)
  /\ UNCHANGED <<buildVars, timeVars, connVars, stmtState, paramsBindings, resultsBindings,
                 paramsConversions, resultsConversions, args, calls, rowsOut, insertIdOut>>

\* lines 119-120: it->second->convertResult() for the conversion under the
\* iterator, and ++it; at end() the loop goes back to line 107
ConvertResult(t) ==
  /\ pc[t] = "convertResult"
  /\ LET i    == cursor[t]
         conv == resultsConversions[i]
         next == ConversionsNext(resultsConversions, i)
     IN  \E throws \in BOOLEAN :
           /\ throws => conv.kind \in ThrowingResultKinds
           /\ IF throws
                THEN /\ Throw(t, <<Ev("convertResult", i)>>)
                     /\ UNCHANGED <<container, cursor>>
                ELSE /\ container' = WriteConverted(container, conv.external, i)
                     /\ cursor' = [cursor EXCEPT ![t] = next]
                     /\ Advance(t, IF next = 0 THEN "manufacture" ELSE "convertResult",
                                <<Ev("convertResult", i)>>)
  /\ UNCHANGED <<buildVars, timeVars, connVars, stmtState, paramsBindings, resultsBindings,
                 paramsConversions, resultsConversions, args, calls, rowsOut, insertIdOut>>

\* line 124: connection.getFoundRows(rows), on the statement's connection
StatementConnection == 1

FoundRows(t) ==
  /\ pc[t] = "getFoundRows"
  /\ \E failAt \in GetFoundRowsFailures :
       LET c == StatementConnection
           r == GetFoundRows(foundRowsStatement[c], foundRowsBinding[c],
                             Ptr(t, 0, 0, "rows"), failAt)
       IN  /\ foundRowsStatement' = [foundRowsStatement EXCEPT ![c] = r.aux]
           /\ foundRowsBinding' = [foundRowsBinding EXCEPT ![c] = r.binding]
           /\ rowsOut' = [o \in Threads |->
                            IF Ptr(o, 0, 0, "rows") \in r.written
                              THEN "found_rows" ELSE rowsOut[o]]
           /\ IF r.raised THEN Throw(t, <<Ev("getFoundRows", 0)>>)
                          ELSE Advance(t, "reset", <<Ev("getFoundRows", 0)>>)
  /\ UNCHANGED <<buildVars, timeVars, connection, cPc, cRows, stmtState, paramsBindings,
                 resultsBindings, paramsConversions, resultsConversions,
                 args, calls, container, insertIdOut, cursor>>

OutValuesUnasked(t) ==
  /\ pc[t] = "outvalues"
  /\ rowsOut' = [rowsOut EXCEPT ![t] = "affected_rows"]
  /\ insertIdOut' = [insertIdOut EXCEPT ![t] = "insert_id"]
  /\ Advance(t, "reset", <<Ev("affected_rows", 0), Ev("insert_id", 0)>>)
  /\ UNCHANGED <<buildVars, timeVars, connVars, stmtState, paramsBindings, resultsBindings,
                 paramsConversions, resultsConversions, args, calls, container, cursor>>

\* lines 128-129
OutValues(t) ==
  /\ pc[t] = "outvalues"
  /\ rowsOut' = [rowsOut EXCEPT ![t] = IF args[t].rows THEN "affected_rows" ELSE @]
  /\ insertIdOut' = [insertIdOut EXCEPT ![t] = IF args[t].insertId THEN "insert_id" ELSE @]
  /\ Advance(t, "reset",
             (IF args[t].rows THEN <<Ev("affected_rows", 0)>> ELSE <<>>)
               \o (IF args[t].insertId THEN <<Ev("insert_id", 0)>> ELSE <<>>))
  /\ UNCHANGED <<buildVars, timeVars, connVars, stmtState, paramsBindings, resultsBindings,
                 paramsConversions, resultsConversions, args, calls, container, cursor>>

\* lines 132-133
Reset(t) ==
  /\ pc[t] = "reset"
  /\ stmtState' = "prepared"
  /\ Advance(t, "return", <<Ev("free_result", 0), Ev("reset", 0)>>)
  /\ UNCHANGED <<buildVars, timeVars, connVars, paramsBindings, resultsBindings,
                 paramsConversions, resultsConversions,
                 args, calls, container, rowsOut, insertIdOut, cursor>>

\* line 134: the closing brace, where executeLock is destroyed
Return(t) ==
  /\ pc[t] = "return"
  /\ pc' = [pc EXCEPT ![t] = "returned"]
  /\ executeMutex' = ExitMutex(t, "return")
  /\ UNCHANGED <<buildVars, timeVars, connVars, stmtState, paramsBindings, resultsBindings,
                 paramsConversions, resultsConversions,
                 args, calls, container, rowsOut, insertIdOut, cursor, log>>

(***************************************************************************)
(* Specifications.                                                         *)
(***************************************************************************)
ConnConnected ==
  /\ connection = [c \in Connections |-> "open"]
  /\ foundRowsStatement = [c \in Connections |-> "prepared"]
  /\ foundRowsBinding = [c \in Connections |-> ConnectBinding(ZeroBind, "none")]
  /\ cPc = [c \in Connections |-> "connected"]
  /\ cRows = [c \in Connections |-> "unwritten"]

\* A Statement after init() on a connected Connection, and callers that have
\* not called execute yet.
ExecuteIdle ==
  /\ executeMutex = NoThread
  /\ stmtState = "prepared"
  /\ paramsBindings = InitBindings(ParamSet)
  /\ resultsBindings = InitBindings(ResultSet)
  /\ paramsConversions = InitConversions(ParamSet)
  /\ resultsConversions = InitConversions(ResultSet)
  /\ pc = [t \in Threads |-> "idle"]
  /\ args = [t \in Threads |-> NoArgs]
  /\ calls = [t \in Threads |-> 0]
  /\ container = [t \in Threads |-> <<>>]
  /\ rowsOut = [t \in Threads |-> "unwritten"]
  /\ insertIdOut = [t \in Threads |-> "unwritten"]
  /\ cursor = [t \in Threads |-> 0]
  /\ log = [t \in Threads |-> <<>>]

Init == BuildIdle /\ TimeIdle /\ ConnConnected /\ ExecuteIdle

Proceed(t, maxRows) ==
  \/ Lock(t)
  \/ ApplyParameters(t)
  \/ ConvertParam(t)
  \/ DriverBindParam(t)
  \/ DriverExecute(t)
  \/ Manufacture(t)
  \/ ApplyResults(t)
  \/ DriverBindResult(t)
  \/ Fetch(t, maxRows)
  \/ ConvertResult(t)
  \/ FoundRows(t)
  \/ OutValues(t)
  \/ Reset(t)
  \/ Return(t)

\* One caller, every combination of arguments.
Next ==
  \/ Call(1, ExecuteArgs, calls[1] < MaxCalls)
  \/ Proceed(1, MaxRows)

Spec == Init /\ [][Next]_vars

\* Several callers on the one statement, making MaxThreadCalls calls between
\* them.
TotalCalls == Cardinality({tk \in Threads \X (1..MaxThreadCalls) : tk[2] <= calls[tk[1]]})

NextThreads ==
  \/ \E t \in Threads : Call(t, ConcurrentArgs, TotalCalls < MaxThreadCalls)
  \/ \E t \in Threads : Proceed(t, MaxThreadRows)

SpecThreads == Init /\ [][NextThreads]_vars

\* Every driver call returns and a runnable thread runs: a caller inside
\* execute, or one whose lock attempt can succeed, goes on.
FairSpecThreads == SpecThreads /\ \A t \in Threads : WF_vars(Proceed(t, MaxThreadRows))

InitBuildSpec == InitBuild /\ ConnFresh /\ ExecuteIdle

SpecBuild == InitBuildSpec /\ [][BuildBindingsCall]_vars

InitTimeSpec == InitTime /\ ConnFresh /\ ExecuteIdle

NextTime == ConvertParamTimeCall \/ ConvertResultTimeCall

SpecTime == InitTimeSpec /\ [][NextTime]_vars

InitConnect == BuildIdle /\ TimeIdle /\ ConnFresh /\ ExecuteIdle

NextConnect == \E c \in Connections : Connect(c) \/ GetFoundRowsCall(c) \/ Destroy(c)

SpecConnect == InitConnect /\ [][NextConnect]_vars

(***************************************************************************)
(* Properties.                                                             *)
(***************************************************************************)
\* The positions of execute between taking the mutex and giving it back.
InsidePcs ==
  {"parameters", "convertParam", "bind_param", "execute", "manufacture", "bindResults",
   "bind_result", "fetch", "convertResult", "getFoundRows", "outvalues", "reset", "return"}

Inside(t) == pc[t] \in InsidePcs

Positions(L, op) == {p \in DOMAIN L : L[p].op = op}

\* C1: an execute that raised went through free-result/reset on its way out,
\* so whenever nobody is executing the statement it is back in the prepared
\* state.
C1_RaisedIsReset ==
  /\ \A t \in Threads : pc[t] = "raised" => Count(log[t], "reset") = 1
  /\ executeMutex = NoThread => stmtState = "prepared"

\* C2: at most one caller is inside the execute protocol, it is the holder of
\* the mutex, and the descriptors and conversions it has pointed at its own
\* records still point there while it uses them.
C2_MutualExclusion ==
  /\ \A t1, t2 \in Threads : Inside(t1) /\ Inside(t2) => t1 = t2
  /\ \A t \in Threads : Inside(t) => executeMutex = t
  /\ \A t \in Threads :
       /\ (pc[t] \in {"convertParam", "bind_param", "execute"} /\ args[t].parameters.supplied)
            => \A i \in DOMAIN paramsConversions :
                 paramsConversions[i].external = Ptr(t, 0, i, "value")
       /\ pc[t] \in {"bind_result", "fetch", "convertResult"}
            => \A i \in DOMAIN resultsConversions :
                 resultsConversions[i].external = Ptr(t, Len(container[t]), i, "value")

C2_Witness ==
  \E t1, t2 \in Threads :
    /\ t1 # t2
    /\ pc[t1] = "convertResult"
    /\ pc[t2] = "lock"

\* C3: when execute returns with a result container and the driver delivered
\* N rows, the container holds the records it had plus N, the k-th new one
\* filled by the k-th row and converted in full; manufacture() ran N+1 times
\* and trim() once, straight after the fetch that found no more rows.
C3_RowCount ==
  \A t \in Threads :
    (pc[t] = "returned" /\ args[t].results) =>
      LET L == log[t]
          N == Count(L, "fetch_row")
          first == args[t].initial
      IN  /\ Len(container[t]) = first + N
          /\ Count(L, "manufacture") = N + 1
          /\ Count(L, "trim") = 1
          /\ \A p \in Positions(L, "trim") :
               /\ L[p - 1].op = "fetch_no_data"
               /\ \A q \in Positions(L, "manufacture") : q < p
          /\ \A k \in 1..first : container[t][k] = OldRecord
          /\ \A k \in 1..N :
               container[t][first + k] = [row |-> k, converted |-> DOMAIN resultsConversions]

C3_Witness ==
  \E t \in Threads :
    /\ pc[t] = "returned"
    /\ args[t].results
    /\ args[t].initial = 1
    /\ Count(log[t], "fetch_row") = 2
    /\ Len(container[t]) = 3

\* C4: a parameter column whose null indicator is true is never handed to
\* convertParam.
C4_NullBypassed ==
  \A t \in Threads :
    \A i \in args[t].parameters.nullness :
      \A p \in Positions(log[t], "convertParam") : log[t][p].col # i

\* C5: when connect has thrown, the connection handle and the auxiliary
\* statement handle that the call acquired are no longer held.
C5_ReleasedOnFailure ==
  \A c \in Connections :
    cPc[c] = "raised" =>
      /\ connection[c] \notin {"initialised", "open"}
      /\ foundRowsStatement[c] \notin {"initialised", "prepared"}

\* C6: in the steps of one execute, every convertParam comes before
\* bind_param and execute, in ascending column order, and all of them have run
\* when the parameters are bound; every convertResult follows the fetch of its
\* row with only lower columns' conversions in between; a manufacture() that
\* is not the first follows the full set of conversions of the row before;
\* and each fetch is preceded by manufacture(), bindBindings on that record
\* and bind_result, the conversions and the directly bound descriptors
\* pointing at the fresh last record when the fetch runs.
C6_Ordering ==
  \A t \in Threads :
    LET L == log[t]
        n == Cardinality(DOMAIN resultsConversions)
    IN  /\ \A p \in Positions(L, "convertParam") :
             /\ \A q \in Positions(L, "bind_param") \cup Positions(L, "execute") : p < q
             /\ \A q \in Positions(L, "convertParam") : p < q => L[p].col < L[q].col
        /\ \A q \in Positions(L, "bind_param") :
             args[t].parameters.supplied =>
               {L[p].col : p \in {r \in Positions(L, "convertParam") : r < q}}
                 = DOMAIN paramsConversions
        /\ \A p \in Positions(L, "convertResult") :
             \E f \in Positions(L, "fetch_row") :
               /\ f < p
               /\ \A m \in (f + 1)..(p - 1) :
                    L[m].op = "convertResult" /\ L[m].col < L[p].col
        /\ \A q \in Positions(L, "manufacture") :
             \/ L[q - 1].op = "execute"
             \/ /\ q > n + 1
                /\ L[q - n - 1].op = "fetch_row"
                /\ {L[m].col : m \in (q - n)..(q - 1)} = DOMAIN resultsConversions
                /\ \A m \in (q - n)..(q - 1) : L[m].op = "convertResult"
        /\ \A p \in Positions(L, "fetch_row") \cup Positions(L, "fetch_no_data")
                      \cup Positions(L, "fetch_error") :
             /\ p > 3
             /\ L[p - 1].op = "bind_result"
             /\ L[p - 2] = Ev("bindBindings", 1)
             /\ L[p - 3].op = "manufacture"
        /\ pc[t] = "fetch" =>
             /\ container[t][Len(container[t])] = FreshRecord
             /\ \A i \in DOMAIN resultsBindings :
                  IF i \in DOMAIN resultsConversions
                    THEN resultsConversions[i].external
                           = Ptr(t, Len(container[t]), i, "value")
                    ELSE resultsBindings[i].buffer = Ptr(t, Len(container[t]), i, "value")

C6_Witness ==
  \E t \in Threads :
    /\ pc[t] = "returned"
    /\ args[t].parameters.supplied
    /\ Count(log[t], "convertParam") = 2
    /\ Count(log[t], "fetch_row") = 2
    /\ Count(log[t], "convertResult") = 4

\* C7: an out-value that was not asked for is never written, the row count
\* of a call with a container is written by getFoundRows only after the fetch
\* loop has ended, and a call that returns has filled exactly: with a
\* container, the row count (if asked) from foundRows and no insert id;
\* without one, the row count (if asked) from affected-rows and the insert id
\* (if asked) from last-insert-id.
C7_OutValues ==
  \A t \in Threads :
    /\ ~args[t].rows => rowsOut[t] = "unwritten"
    /\ ~args[t].insertId => insertIdOut[t] = "unwritten"
    /\ rowsOut[t] = "found_rows" =>
         \A p \in Positions(log[t], "getFoundRows") :
           \E q \in Positions(log[t], "fetch_no_data") : q < p
    /\ pc[t] = "returned" =>
         IF args[t].results
           THEN /\ rowsOut[t] = IF args[t].rows THEN "found_rows" ELSE "unwritten"
                /\ insertIdOut[t] = "unwritten"
           ELSE /\ rowsOut[t] = IF args[t].rows THEN "affected_rows" ELSE "unwritten"
                /\ insertIdOut[t] = IF args[t].insertId THEN "insert_id" ELSE "unwritten"

C7_Witness ==
  \E t \in Threads :
    /\ pc[t] = "returned"
    /\ calls[t] = 2
    /\ args[t].results
    /\ args[t].rows
    /\ args[t].insertId
    /\ rowsOut[t] = "found_rows"

\* C8: a duration written by the TIME convertParam and read back by the TIME
\* convertResult is the duration that was written.
C8_RoundTrip == tPc = "done" => tExternal = tOriginal

\* The integer families with the driver type code of each, the unsigned
\* kinds, and the kinds that need driver-side scratch.
IntFamilies ==
  { [members |-> {TINY, U_TINY, Nullable(TINY), Nullable(U_TINY)},
     code |-> "MYSQL_TYPE_TINY"],
    [members |-> {SHORT, U_SHORT, Nullable(SHORT), Nullable(U_SHORT)},
     code |-> "MYSQL_TYPE_SHORT"],
    [members |-> {INT, U_INT, Nullable(INT), Nullable(U_INT)},
     code |-> "MYSQL_TYPE_LONG"],
    [members |-> {BIGINT, U_BIGINT, Nullable(BIGINT), Nullable(U_BIGINT)},
     code |-> "MYSQL_TYPE_LONGLONG"] }

UnsignedTypes ==
  {U_TINY, U_SHORT, U_INT, U_BIGINT,
   Nullable(U_TINY), Nullable(U_SHORT), Nullable(U_INT), Nullable(U_BIGINT)}

ConversionTypes ==
  {DATE, DATETIME, TIME, BLOB, TEXT, WTEXT,
   Nullable(DATE), Nullable(DATETIME), Nullable(TIME), Nullable(BLOB), Nullable(TEXT),
   Nullable(WTEXT)}

\* C9: buildBindings gives the four variants of an integer family the
\* family's driver type code, sets the unsigned flag exactly for the unsigned
\* variants, creates a conversion object exactly for DATE, DATETIME, TIME,
\* BLOB, TEXT and WTEXT columns (nullable or not), and gives a nullable column
\* the descriptor of its base kind.
C9_BaseKindDecides ==
  bDone =>
    /\ DOMAIN bBindings = 1..Len(bSet)
    /\ DOMAIN bConversions = {i \in 1..Len(bSet) : bSet[i].type \in ConversionTypes}
    /\ \A i \in 1..Len(bSet) :
         /\ \A f \in IntFamilies :
              bSet[i].type \in f.members => bBindings[i].buffer_type = f.code
         /\ bBindings[i].is_unsigned = 1 <=> bSet[i].type \in UnsignedTypes
         /\ \A j \in 1..Len(bSet) :
              (bSet[j].type = Nullable(bSet[i].type) /\ bSet[j].size = bSet[i].size) =>
                /\ bBindings[j].buffer_type = bBindings[i].buffer_type
                /\ bBindings[j].is_unsigned = bBindings[i].is_unsigned
                /\ bBindings[j].buffer_length = bBindings[i].buffer_length
                /\ (j \in DOMAIN bConversions) = (i \in DOMAIN bConversions)
                /\ j \in DOMAIN bConversions => bConversions[j] = bConversions[i]

C9_Witness ==
  /\ bDone
  /\ Len(bSet) = 2
  /\ bSet[1].type = Nullable(U_INT)
  /\ bSet[2].type = Nullable(WTEXT)
  /\ bBindings[1].is_unsigned = 1
  /\ 2 \in DOMAIN bConversions

\* C10: a caller that is not inside execute does not hold the statement's
\* mutex, whether it returned or raised, and a caller waiting for the mutex
\* comes to hold it.
C10_LockReleased ==
  /\ [](\A t \in Threads : pc[t] \in {"idle", "returned", "raised"} => executeMutex # t)
  /\ \A t \in Threads : (pc[t] = "lock") ~> (executeMutex = t)

C10_Witness ==
  \E t1, t2 \in Threads :
    /\ t1 # t2
    /\ pc[t1] = "raised"
    /\ Inside(t2)
    /\ executeMutex = t2

====
